---- MODULE Spec2Model ----
(***************************************************************************)
(* Adaptive item selection of the Oral Reading Recognition timeline.       *)
(*                                                                         *)
(* Numbers.  Item difficulties, tolerances and table values are decimal    *)
(* numbers with one fractional digit in the source; they are kept here as  *)
(* integers counting tenths (difficulty 0.5 is 5, tolerance 1.5 is 15).    *)
(* The ability estimate is a quotient, kept as an exact fraction           *)
(* [n |-> numerator, d |-> denominator] in lowest terms with d > 0.        *)
(* calculateStandardError is kept as its square (a fraction): both sides   *)
(* of the source's comparison se < targetSE are non-negative, so it is     *)
(* decided by the squares.  Response latencies (rt) steer nothing and are  *)
(* left out of the Response records.                                       *)
(***************************************************************************)
EXTENDS Integers, Sequences, FiniteSets, TLC

(***************************************************************************)
(* Bounds of the model                                                     *)
(***************************************************************************)
MaxBank == 3
MaxListeners == 2
MaxProbeWords == 2
MaxProbeResponses == 4
MaxProbeItems == 4
MaxLongHistory == 11
MaxProbeAge == 24
MaxSourceWords == 3

(***************************************************************************)
(* Exact arithmetic                                                        *)
(***************************************************************************)
Abs(x) == IF x < 0 THEN -x ELSE x

RECURSIVE GCD(_, _)
GCD(a, b) == IF b = 0 THEN a ELSE GCD(b, a % b)

Frac(n, d) ==
    LET g == GCD(Abs(n), d)
    IN  IF n = 0 THEN [n |-> 0, d |-> 1] ELSE [n |-> n \div g, d |-> d \div g]

FromTenths(t) == Frac(t, 10)

FracLess(a, b) == a.n * b.d < b.n * a.d

(* |difficulty - ability| in units of 1/(10 * ability.d) *)
Distance(item, ability) == Abs(item.difficulty * ability.d - 10 * ability.n)

(* a number of tenths in the same units *)
Scaled(tenths, ability) == tenths * ability.d

(***************************************************************************)
(* Items                                                                   *)
(***************************************************************************)
Item(id, type, difficulty) == [id |-> id, type |-> type, difficulty |-> difficulty]

NoItem == Item("null", "none", 0)

getPracticeItems ==
    << Item("P1", "word", 30), Item("P2", "letter", 6), Item("P3", "letter_array", 8) >>

(* items of the generated bank, in the order loadAllItems concatenates them *)
SessionPool ==
    << Item("LA1", "letter_array", 3), Item("L1", "letter", 5), Item("L5", "letter", 5),
       Item("W1", "word", 30), Item("W2", "word", 41) >>

SeqToSet(s) == {s[i] : i \in 1..Len(s)}

(***************************************************************************)
(* getStartPoint                                                           *)
(***************************************************************************)
AgeTable ==
    [a \in 7..18 |->
        CASE a = 7 -> 5 [] a = 8 -> 10 [] a = 9 -> 20 [] a = 10 -> 30
          [] a = 11 -> 35 [] a = 12 -> 40 [] a = 13 -> 45 [] a = 14 -> 50
          [] a = 15 -> 55 [] a = 16 -> 60 [] a = 17 -> 65 [] a = 18 -> 70]

EducationLevels ==
    {"less_than_high_school", "high_school", "some_college", "college", "graduate"}

EducationTable ==
    [e \in EducationLevels |->
        CASE e = "less_than_high_school" -> 40 [] e = "high_school" -> 50
          [] e = "some_college" -> 60 [] e = "college" -> 70 [] e = "graduate" -> 80]

getStartPointSingleDefault(age, education) ==
    IF age < 19
    THEN IF age \in DOMAIN AgeTable THEN AgeTable[age] ELSE 50
    ELSE IF education \in DOMAIN EducationTable THEN EducationTable[education] ELSE 50

getStartPoint(age, education) ==
    IF age < 19
    THEN IF age \in DOMAIN AgeTable THEN AgeTable[age] ELSE 30
    ELSE IF education \in DOMAIN EducationTable THEN EducationTable[education] ELSE 50

(***************************************************************************)
(* selectNextItem: the set of items the call can return (the random index  *)
(* into topCandidates is the only choice); {NoItem} stands for null.       *)
(***************************************************************************)
(* a filter that lets every item through, administered or not: C1 fails with it *)
availableItemsAll(items, administeredItems) == items

availableItemsOf(items, administeredItems) ==
    LET Free(item) == \A i \in 1..Len(administeredItems) : administeredItems[i] # item.id
    IN  SelectSeq(items, Free)

isEarlyInTest(administeredItems) == Len(administeredItems) < 3

difficultyTolerance(administeredItems) == IF isEarlyInTest(administeredItems) THEN 15 ELSE 5

tieTolerance(administeredItems) == IF isEarlyInTest(administeredItems) THEN 2 ELSE 1

(* a tolerance filter without the fall-back to all available items: C9 fails
   with it *)
withinToleranceNoFallback(availableItems, currentAbility, administeredItems) ==
    LET Near(item) == Distance(item, currentAbility)
                        <= Scaled(difficultyTolerance(administeredItems), currentAbility)
    IN  SelectSeq(availableItems, Near)

(* no tolerance filter at all *)
withinToleranceAll(availableItems, currentAbility, administeredItems) == availableItems

withinTolerance(availableItems, currentAbility, administeredItems) ==
    LET Near(item) == Distance(item, currentAbility)
                        <= Scaled(difficultyTolerance(administeredItems), currentAbility)
        near == SelectSeq(availableItems, Near)
    IN  IF Len(near) = 0 THEN availableItems ELSE near

(* a first-item filter that keeps the words when the ability is below 2.0: C11
   fails with it *)
firstItemFilterWrongKind(candidateItems, currentAbility, administeredItems) ==
    LET Easy(item) == item.type = "word"
        Medium(item) == item.type = "letter" \/ (item.type = "word" /\ item.difficulty < 40)
    IN  IF Len(administeredItems) = 0
        THEN IF FracLess(currentAbility, FromTenths(20)) THEN SelectSeq(candidateItems, Easy)
             ELSE IF FracLess(currentAbility, FromTenths(35))
                  THEN SelectSeq(candidateItems, Medium)
                  ELSE candidateItems
        ELSE candidateItems

(* a first-item filter that keeps every word when the ability is in [2.0, 3.5) *)
firstItemFilterAnyWord(candidateItems, currentAbility, administeredItems) ==
    LET Easy(item) == item.type = "letter_array" \/ item.type = "letter"
        Medium(item) == item.type = "letter" \/ item.type = "word"
    IN  IF Len(administeredItems) = 0
        THEN IF FracLess(currentAbility, FromTenths(20)) THEN SelectSeq(candidateItems, Easy)
             ELSE IF FracLess(currentAbility, FromTenths(35))
                  THEN SelectSeq(candidateItems, Medium)
                  ELSE candidateItems
        ELSE candidateItems

firstItemFilter(candidateItems, currentAbility, administeredItems) ==
    LET Easy(item) == item.type = "letter_array" \/ item.type = "letter"
        Medium(item) == item.type = "letter" \/ (item.type = "word" /\ item.difficulty < 40)
    IN  IF Len(administeredItems) = 0
        THEN IF FracLess(currentAbility, FromTenths(20)) THEN SelectSeq(candidateItems, Easy)
             ELSE IF FracLess(currentAbility, FromTenths(35))
                  THEN SelectSeq(candidateItems, Medium)
                  ELSE candidateItems
        ELSE candidateItems

(* the early tie tolerance 0.2 at every point of the test *)
topCandidatesEarlyTolerance(candidateItems, currentAbility, administeredItems) ==
    LET bestDiff == CHOOSE d \in {Distance(candidateItems[i], currentAbility) :
                                    i \in 1..Len(candidateItems)} :
                        \A j \in 1..Len(candidateItems) :
                            d <= Distance(candidateItems[j], currentAbility)
    IN  {candidateItems[i] : i \in
            {j \in 1..Len(candidateItems) :
                Distance(candidateItems[j], currentAbility)
                    <= bestDiff + Scaled(2, currentAbility)}}

topCandidates(candidateItems, currentAbility, administeredItems) ==
    LET bestDiff == CHOOSE d \in {Distance(candidateItems[i], currentAbility) :
                                    i \in 1..Len(candidateItems)} :
                        \A j \in 1..Len(candidateItems) :
                            d <= Distance(candidateItems[j], currentAbility)
    IN  {candidateItems[i] : i \in
            {j \in 1..Len(candidateItems) :
                Distance(candidateItems[j], currentAbility)
                    <= bestDiff + Scaled(tieTolerance(administeredItems), currentAbility)}}

selectNextItem(items, currentAbility, administeredItems) ==
    LET availableItems == availableItemsOf(items, administeredItems)
        candidateItems ==
            firstItemFilter(withinTolerance(availableItems, currentAbility, administeredItems),
                            currentAbility, administeredItems)
    IN  IF Len(availableItems) = 0 THEN {NoItem}
        ELSE IF Len(candidateItems) = 0 THEN {availableItems[1]}
        ELSE topCandidates(candidateItems, currentAbility, administeredItems)

(***************************************************************************)
(* updateAbilityEstimate                                                   *)
(***************************************************************************)
findItem(items, itemId) ==
    LET hits == {i \in 1..Len(items) : items[i].id = itemId}
    IN  IF hits = {} THEN NoItem
        ELSE items[CHOOSE i \in hits : \A j \in hits : i <= j]

RECURSIVE SumSeq(_)
SumSeq(s) == IF Len(s) = 0 THEN 0 ELSE s[1] + SumSeq(Tail(s))

SumOver(s, Term(_)) == SumSeq([i \in 1..Len(s) |-> Term(s[i])])

countCorrect(responses) ==
    LET One(r) == IF r.correct THEN 1 ELSE 0 IN SumOver(responses, One)

updateAbilityEstimateSumFound(items, responses) ==
    LET Diff(r) == findItem(items, r.itemId).difficulty
        sumDifficulty == SumOver(responses, Diff)
    IN  IF Len(responses) = 0 THEN Frac(0, 1)
        ELSE Frac(7 * sumDifficulty + 300 * countCorrect(responses), 100 * Len(responses))

updateAbilityEstimateEqualWeights(items, responses) ==
    LET Diff(r) == findItem(items, r.itemId).difficulty
        DiffIfCorrect(r) == IF r.correct THEN Diff(r) ELSE 0
        sumCorrect == SumOver(responses, DiffIfCorrect)
    IN  IF Len(responses) = 0 THEN Frac(0, 1)
        ELSE Frac(10 * sumCorrect + 300 * countCorrect(responses), 100 * Len(responses))

updateAbilityEstimate(items, responses) ==
    LET Diff(r) == findItem(items, r.itemId).difficulty
        DiffIfCorrect(r) == IF r.correct THEN Diff(r) ELSE 0
        sumDifficulty == SumOver(responses, Diff)
        sumCorrect == SumOver(responses, DiffIfCorrect)
        weightedTenths == IF sumDifficulty > 0 THEN sumCorrect ELSE 0
    IN  IF Len(responses) = 0 THEN Frac(0, 1)
        ELSE Frac(7 * weightedTenths + 300 * countCorrect(responses), 100 * Len(responses))

(***************************************************************************)
(* calculateStandardError (squared) and shouldStopTest                     *)
(***************************************************************************)
(* no window: every response counts *)
recentResponsesAll(responses) == responses

recentResponses(responses) ==
    IF Len(responses) <= 10 THEN responses
    ELSE SubSeq(responses, Len(responses) - 9, Len(responses))

(* the standard deviation of the window in place of the standard error (no
   division by the square root of the window length): C33 fails with it *)
calculateStandardErrorSqDeviation(responses) ==
    LET recentCorrect == [i \in 1..Len(recentResponses(responses)) |->
                             IF recentResponses(responses)[i].correct THEN 1 ELSE 0]
        w == Len(recentCorrect)
        k == SumSeq(recentCorrect)
        squares == [i \in 1..w |-> (recentCorrect[i] * w - k) * (recentCorrect[i] * w - k)]
    IN  IF Len(responses) < 3 THEN Frac(1, 1)
        ELSE Frac(SumSeq(squares), w * w * w)

(* a standard error whose early return covers fewer than 2 responses only: C13
   fails with it *)
calculateStandardErrorSqFromTwo(responses) ==
    LET recentCorrect == [i \in 1..Len(recentResponses(responses)) |->
                             IF recentResponses(responses)[i].correct THEN 1 ELSE 0]
        w == Len(recentCorrect)
        k == SumSeq(recentCorrect)
        squares == [i \in 1..w |-> (recentCorrect[i] * w - k) * (recentCorrect[i] * w - k)]
    IN  IF Len(responses) < 2 THEN Frac(1, 1)
        ELSE Frac(SumSeq(squares), w * w * w * w)

calculateStandardErrorSq(responses) ==
    LET recentCorrect == [i \in 1..Len(recentResponses(responses)) |->
                             IF recentResponses(responses)[i].correct THEN 1 ELSE 0]
        w == Len(recentCorrect)
        k == SumSeq(recentCorrect)
        \* mean = k / w; each (val - mean)^2 is (val * w - k)^2 / w^2
        squares == [i \in 1..w |-> (recentCorrect[i] * w - k) * (recentCorrect[i] * w - k)]
    IN  IF Len(responses) < 3 THEN Frac(1, 1)
        \* variance = SumSeq(squares) / w^3; the square of the result is variance / w
        ELSE Frac(SumSeq(squares), w * w * w * w)

(* a stopping rule that stops at a standard error equal to targetSE: C12 fails
   with it *)
shouldStopTestAtMostTarget(responses, config) ==
    IF Len(responses) < config.minItems THEN FALSE
    ELSE IF Len(responses) >= config.maxItems THEN TRUE
    ELSE ~FracLess(Frac(config.targetSE * config.targetSE, 100),
                   calculateStandardErrorSq(responses))

(* a stopping rule without the maxItems test: C5 fails with it *)
shouldStopTestNoMax(responses, config) ==
    IF Len(responses) < config.minItems THEN FALSE
    ELSE FracLess(calculateStandardErrorSq(responses),
                  Frac(config.targetSE * config.targetSE, 100))

(* a stopping rule that tests maxItems before minItems: C6 fails with it *)
shouldStopTestMaxFirst(responses, config) ==
    IF Len(responses) >= config.maxItems THEN TRUE
    ELSE IF Len(responses) < config.minItems THEN FALSE
    ELSE FracLess(calculateStandardErrorSq(responses),
                  Frac(config.targetSE * config.targetSE, 100))

shouldStopTest(responses, config) ==
    IF Len(responses) < config.minItems THEN FALSE
    ELSE IF Len(responses) >= config.maxItems THEN TRUE
    ELSE FracLess(calculateStandardErrorSq(responses),
                  Frac(config.targetSE * config.targetSE, 100))


(***************************************************************************)
(* selectNextItem of the variant without the "at least one item" guard:    *)
(* indexing the empty candidate list raises a TypeError.                   *)
(***************************************************************************)
TypeError == Item("TypeError", "throw", 0)

selectNextItemUnguarded(items, currentAbility, administeredItems) ==
    LET availableItems == availableItemsOf(items, administeredItems)
        candidateItems ==
            firstItemFilter(withinTolerance(availableItems, currentAbility, administeredItems),
                            currentAbility, administeredItems)
    IN  IF Len(availableItems) = 0 THEN {NoItem}
        ELSE IF Len(candidateItems) = 0 THEN {TypeError}
        ELSE topCandidates(candidateItems, currentAbility, administeredItems)

(***************************************************************************)
(* Session state                                                           *)
(***************************************************************************)
VARIABLES
    items,              \* CAT_CONFIG.items
    config,             \* CAT_CONFIG.minItems, maxItems, targetSE; showInstructions
    window,             \* window.name: "single" or "participant"
    pc,                 \* the trial of the timeline on display
    participantData,    \* state.participantData
    responses,          \* state.responses
    abilityEstimate,    \* state.abilityEstimate
    itemsAdministered,  \* state.itemsAdministered
    currentItem,        \* state.currentItem
    isPractice,         \* state.isPractice
    practiceResponses,  \* state.practiceResponses
    lastTrial,          \* pause_requested of the last trial written to jsPsych.data
    prevScoring,        \* last trial of phase "scoring" in jsPsych.data
    pauseRequested,     \* window.pauseRequested
    pendingResponse,    \* window.pendingResponse
    continueListeners,  \* pause-screen 'message' listeners still registered
    pendingFinish,      \* finishTrial() calls of one 'continue' dispatch not yet run
    trialIndexZero,     \* jsPsych.getProgress().current_trial_global is still 0
    undoTrace,          \* history: the session data before the latest recorded response
    pausedScore,        \* history: what became of a score that arrived on the pause screen
    orrExportData,      \* window.orrExportData
    probe               \* arguments and result of a direct call of an exported utility

vars == << items, config, window, pc, participantData, responses, abilityEstimate,
           itemsAdministered, currentItem, isPractice, practiceResponses, lastTrial,
           prevScoring, pauseRequested, pendingResponse, continueListeners, pendingFinish,
           trialIndexZero, undoTrace, pausedScore, orrExportData, probe >>


Response(itemId, correct) == [itemId |-> itemId, correct |-> correct]

Front(s) == SubSeq(s, 1, Len(s) - 1)

NoOverride == {}

ParticipantData(age, education, override) ==
    [age |-> age, education |-> education, startPointOverride |-> override]

(* values of the demographics form tried by the model *)
Forms ==
    { ParticipantData(10, "high_school", NoOverride),
      ParticipantData(7, "high_school", NoOverride),
      ParticipantData(10, "high_school", {0}) }

NoForm == ParticipantData(0, "", NoOverride)

Config(minItems, maxItems, targetSE, showInstructions) ==
    [minItems |-> minItems, maxItems |-> maxItems, targetSE |-> targetSE,
     showInstructions |-> showInstructions]

(* createTimeline parameters tried by the model; targetSE in tenths *)
SessionConfigs ==
    { Config(2, 3, 3, FALSE), Config(0, 2, 3, FALSE), Config(3, 2, 3, FALSE),
      Config(0, 0, 3, FALSE), Config(1, 1, 3, TRUE) }

NoTrialData == [correct |-> FALSE, pause_requested |-> FALSE, response |-> "none"]

NoProbe == [kind |-> "none"]

NoTrace == [stage |-> "none", before |-> << >>]

NoExport == [summary |-> "none"]

(***************************************************************************)
(* createDemographics.on_finish                                            *)
(***************************************************************************)
initialAbility(form) ==
    IF form.startPointOverride # NoOverride
    THEN FromTenths(CHOOSE v \in form.startPointOverride : TRUE)
    ELSE FromTenths(getStartPoint(form.age, form.education))

(***************************************************************************)
(* createTestTrial.on_finish: the trial data it leaves in jsPsych.data and *)
(* the two window flags                                                    *)
(***************************************************************************)
testOnFinish(item, response, pause_requested, pauseFlag, pending) ==
    LET usePending == pending # "none" /\ response = "none"
        answered == IF usePending THEN pending ELSE response
        scoreResponse == IF answered = "ArrowUp" THEN "1"
                         ELSE IF answered = "ArrowDown" THEN "0" ELSE answered
    IN  IF item = NoItem
        THEN [correct |-> FALSE, pause_requested |-> pause_requested, response |-> response,
              pauseRequested |-> pauseFlag, pendingResponse |-> pending]
        ELSE IF response = "PAUSE" \/ pauseFlag
        THEN [correct |-> FALSE, pause_requested |-> TRUE, response |-> response,
              pauseRequested |-> FALSE, pendingResponse |-> pending]
        ELSE [correct |-> scoreResponse = "1", pause_requested |-> pause_requested,
              response |-> answered, pauseRequested |-> pauseFlag,
              pendingResponse |-> IF usePending THEN "none" ELSE pending]

(***************************************************************************)
(* createSpacebarTrial.on_finish                                           *)
(***************************************************************************)
SessionData(r, a, e, p) ==
    [responses |-> r, itemsAdministered |-> a, abilityEstimate |-> e, practiceResponses |-> p]

(* an undo that pops the response and leaves its id administered: C4 fails with it *)
undoLastKeepAdministered(bank, st) ==
    LET popped == Front(st.responses)
    IN  SessionData(popped, st.itemsAdministered,
                    updateAbilityEstimate(bank, popped), st.practiceResponses)

(* an undo that removes the oldest response in place of the latest: C36 fails
   with it *)
undoLastOldest(bank, st) ==
    LET popped == Tail(st.responses)
    IN  SessionData(popped, Tail(st.itemsAdministered),
                    updateAbilityEstimate(bank, popped), st.practiceResponses)

undoLast(bank, st) ==
    LET popped == Front(st.responses)
    IN  SessionData(popped, Front(st.itemsAdministered),
                    updateAbilityEstimate(bank, popped), st.practiceResponses)

(* a recording that leaves the ability estimate as it was *)
recordResponseStaleAbility(bank, st, item, correct) ==
    SessionData(Append(st.responses, Response(item.id, correct)),
                Append(st.itemsAdministered, item.id),
                st.abilityEstimate, st.practiceResponses)

recordResponse(bank, st, item, correct) ==
    LET pushed == Append(st.responses, Response(item.id, correct))
    IN  SessionData(pushed, Append(st.itemsAdministered, item.id),
                    updateAbilityEstimate(bank, pushed), st.practiceResponses)

undoPractice(st) ==
    SessionData(st.responses, st.itemsAdministered, st.abilityEstimate,
                Front(st.practiceResponses))

(* a practice confirmation that also pushes onto the main responses: C10 fails
   with it *)
recordPracticeIntoMain(st, item, correct) ==
    SessionData(Append(st.responses, Response(item.id, correct)), st.itemsAdministered,
                st.abilityEstimate,
                Append(st.practiceResponses, Response(item.id, correct)))

recordPractice(st, item, correct) ==
    SessionData(st.responses, st.itemsAdministered, st.abilityEstimate,
                Append(st.practiceResponses, Response(item.id, correct)))

spacebarOnFinish(bank, st, item, practice, response, prevData) ==
    IF item = NoItem THEN st
    ELSE IF prevData.pause_requested \/ prevData.response = "PAUSE" THEN st
    ELSE IF practice
    THEN IF response = "ArrowLeft" /\ Len(st.practiceResponses) > 0
         THEN undoPractice(st)
         ELSE recordPractice(st, item, prevData.correct)
    ELSE IF response = "ArrowLeft" /\ Len(st.responses) > 0
         THEN undoLast(bank, st)
         ELSE recordResponse(bank, st, item, prevData.correct)

(***************************************************************************)
(* loop functions of createTimeline                                        *)
(***************************************************************************)
practiceLoopFunctionStopRule(practice) ==
    ~shouldStopTest(practice, config) /\ Len(practice) < Len(getPracticeItems)

practiceLoopFunction(practice) == Len(practice) < Len(getPracticeItems)

testLoopFunctionStopRuleOnly(bank, cfg, resp, administered) ==
    ~shouldStopTest(resp, cfg)

testLoopFunction(bank, cfg, resp, administered) ==
    ~shouldStopTest(resp, cfg) /\ Len(administered) < Len(bank)


(***************************************************************************)
(* The timeline built by createTimeline.  pc names the trial on display;   *)
(* "practiceLoop", "practiceStart", "resetFlag", "mainLoop" and            *)
(* "mainStart" are the points where jsPsych runs a conditional_function,   *)
(* a stimulus function or a trial without choices, with no input awaited.  *)
(***************************************************************************)
ScreenPcs ==
    {"modeSelection", "demographics", "setup", "practiceInstr", "practicePause",
     "practiceComplete", "mainInstr", "mainPause", "results"}

TestPcs == {"practiceTest", "mainTest"}

SpacePcs == {"practiceSpace", "mainSpace"}

PausePcs == {"practicePause", "mainPause"}

DisplayedPcs == ScreenPcs \cup TestPcs \cup SpacePcs

PracticePcs ==
    {"practiceLoop", "practicePause", "practiceStart", "practiceTest", "practiceSpace"}

afterDemographics(cfg) == IF cfg.showInstructions THEN "setup" ELSE "mainLoop"

firstTrial(win, prefilled, cfg) ==
    IF win = "single" THEN "modeSelection"
    ELSE IF prefilled THEN afterDemographics(cfg)
    ELSE "demographics"

afterScreen(at, cfg) ==
    CASE at = "modeSelection" -> "demographics"
      [] at = "demographics" -> afterDemographics(cfg)
      [] at = "setup" -> "practiceInstr"
      [] at = "practiceInstr" -> "practiceLoop"
      [] at = "practicePause" -> "practiceStart"
      [] at = "practiceComplete" -> "resetFlag"
      [] at = "mainInstr" -> "mainLoop"
      [] at = "mainPause" -> "mainStart"
      [] at = "results" -> "done"

afterPracticeLoop(practice) ==
    IF practiceLoopFunction(practice) THEN "practiceLoop" ELSE "practiceComplete"

afterTestLoop(bank, cfg, resp, administered) ==
    IF testLoopFunction(bank, cfg, resp, administered) THEN "mainLoop" ELSE "results"

resetState ==
    /\ participantData = ParticipantData(10, "high_school", NoOverride)
    /\ responses = << >>
    /\ abilityEstimate = FromTenths(30)
    /\ itemsAdministered = << >>
    /\ currentItem = NoItem
    /\ isPractice = FALSE
    /\ practiceResponses = << >>

SessionInit ==
    /\ \E n \in 0..MaxBank : items = SubSeq(SessionPool, 1, n)
    /\ config \in SessionConfigs
    /\ window \in {"single", "participant"}
    /\ \/ /\ resetState
          /\ pc = firstTrial(window, FALSE, config)
       \/ /\ window = "participant"
          /\ participantData \in Forms
          /\ abilityEstimate =
                FromTenths(getStartPoint(participantData.age, participantData.education))
          /\ responses = << >> /\ itemsAdministered = << >> /\ currentItem = NoItem
          /\ isPractice = FALSE /\ practiceResponses = << >>
          /\ pc = firstTrial(window, TRUE, config)
    /\ lastTrial = FALSE
    /\ prevScoring = NoTrialData
    /\ pauseRequested = FALSE
    /\ pendingResponse = "none"
    /\ continueListeners = 0
    /\ pendingFinish = 0
    /\ trialIndexZero = TRUE
    /\ undoTrace = NoTrace
    /\ pausedScore = "none"
    /\ orrExportData = NoExport

Init == SessionInit /\ probe = NoProbe

(***************************************************************************)
(* jsPsych.finishTrial on the trial on display: the trial's on_finish, the *)
(* conditional_function of the spacebar trial and the loop_function.       *)
(* response and pause_requested are the data handed to finishTrial;        *)
(* pauseFlag and pending are the window flags as the caller leaves them.   *)
(***************************************************************************)
(* history of the latest change of state.responses: a push remembers the data it
   found, a pop right after that push is marked "undone" *)
traceAfter(trace, st, new) ==
    IF Len(new.responses) > Len(st.responses)
    THEN [stage |-> "recorded",
          before |-> << st.responses, st.itemsAdministered, st.abilityEstimate >>]
    ELSE IF Len(new.responses) < Len(st.responses)
    THEN IF trace.stage = "recorded" THEN [trace EXCEPT !.stage = "undone"] ELSE NoTrace
    ELSE trace

FinishScreen(pause_requested, pauseFlag, pending, form) ==
    /\ pc \in ScreenPcs
    /\ pc' = afterScreen(pc, config)
    /\ IF pc = "demographics"
       THEN /\ participantData' = form
            /\ abilityEstimate' = initialAbility(form)
       ELSE UNCHANGED << participantData, abilityEstimate >>
    /\ lastTrial' = pause_requested
    /\ pauseRequested' = pauseFlag
    /\ pendingResponse' = pending
    /\ UNCHANGED << responses, itemsAdministered, currentItem, isPractice,
                    practiceResponses, prevScoring, undoTrace >>

FinishTest(response, pause_requested, pauseFlag, pending) ==
    LET data == testOnFinish(currentItem, response, pause_requested, pauseFlag, pending)
    IN  /\ pc \in TestPcs
        /\ prevScoring' = [correct |-> data.correct,
                           pause_requested |-> data.pause_requested,
                           response |-> IF data.response = "PAUSE" THEN "PAUSE" ELSE "key"]
        /\ lastTrial' = data.pause_requested
        /\ pauseRequested' = data.pauseRequested
        /\ pendingResponse' = data.pendingResponse
        /\ IF pc = "practiceTest"
           THEN /\ pc' = IF ~data.pause_requested THEN "practiceSpace"
                         ELSE afterPracticeLoop(practiceResponses)
                /\ isPractice' = (data.pause_requested \/ isPractice)
           ELSE /\ pc' = IF ~data.pause_requested THEN "mainSpace"
                         ELSE afterTestLoop(items, config, responses, itemsAdministered)
                /\ UNCHANGED isPractice
        /\ UNCHANGED << participantData, responses, abilityEstimate, itemsAdministered,
                        currentItem, practiceResponses, undoTrace >>

FinishSpace(response, pause_requested, pauseFlag, pending) ==
    LET st == SessionData(responses, itemsAdministered, abilityEstimate, practiceResponses)
    IN  \E new \in {spacebarOnFinish(items, st, currentItem, pc = "practiceSpace", response,
                                     prevScoring)} :
        /\ pc \in SpacePcs
        /\ responses' = new.responses
        /\ itemsAdministered' = new.itemsAdministered
        /\ abilityEstimate' = new.abilityEstimate
        /\ practiceResponses' = new.practiceResponses
        /\ lastTrial' = pause_requested
        /\ pauseRequested' = pauseFlag
        /\ pendingResponse' = pending
        /\ IF pc = "practiceSpace"
           THEN /\ pc' = afterPracticeLoop(new.practiceResponses)
                /\ isPractice' = TRUE
           ELSE /\ pc' = afterTestLoop(items, config, new.responses, new.itemsAdministered)
                /\ UNCHANGED isPractice
        /\ undoTrace' = traceAfter(undoTrace, st, new)
        /\ UNCHANGED << participantData, currentItem, prevScoring >>

FinishTrial(response, pause_requested, pauseFlag, pending, form) ==
    /\ trialIndexZero' = FALSE
    /\ \/ FinishScreen(pause_requested, pauseFlag, pending, form)
       \/ FinishTest(response, pause_requested, pauseFlag, pending)
       \/ FinishSpace(response, pause_requested, pauseFlag, pending)

FormsAt(at) == IF at = "demographics" THEN Forms ELSE {NoForm}

Fixed == UNCHANGED << items, config, window, probe >>

(* history of window.pendingResponse, read off a step once its other variables are
   set: "stored" while it holds a score that arrived on the pause screen, "scored"
   once a scoring trial of the main test took that score from it, "recorded" once
   the confirmation step appended a response with it *)
(* createResults.stimulus: the export data it stores; accuracy is in tenths of a
   percent (toFixed(1)), standardError is the square of the value, ability is
   state.abilityEstimate, which the function does not read *)
createResultsStimulus(bank, resp, participant, ability) ==
    [participant |-> participant,
     summary |-> [totalItems |-> Len(resp),
                  correctResponses |-> countCorrect(resp),
                  accuracy |-> IF Len(resp) > 0
                               THEN (2000 * countCorrect(resp) + Len(resp)) \div (2 * Len(resp))
                               ELSE 0,
                  finalAbility |-> updateAbilityEstimate(bank, resp),
                  standardError |-> calculateStandardErrorSq(resp)],
     responses |-> [i \in 1..Len(resp) |->
                      [itemId |-> resp[i].itemId,
                       itemType |-> findItem(bank, resp[i].itemId).type,
                       itemDifficulty |-> findItem(bank, resp[i].itemId).difficulty,
                       correct |-> resp[i].correct]]]

(* the results screen computes the export data when it comes on display *)
exportDataAfter ==
    IF pc' = "results" /\ pc # "results"
    THEN createResultsStimulus(items, responses', participantData', abilityEstimate')
    ELSE orrExportData

scoreTraceAfter(scoreArrived) ==
    LET consumed == pendingResponse # "none" /\ pendingResponse' = "none"
        appended == Len(responses') > Len(responses)
    IN  IF pausedScore = "scored" /\ pc = "mainSpace" /\ pc' # pc
        THEN IF appended THEN "recorded" ELSE "none"
        ELSE IF scoreArrived
        THEN IF pc \in PausePcs THEN "stored" ELSE "none"
        ELSE IF consumed
        THEN IF pausedScore = "stored" /\ pc = "mainTest" /\ currentItem # NoItem
             THEN "scored" ELSE "none"
        ELSE IF pausedScore = "recorded" /\ pc' # pc THEN "none"
        ELSE pausedScore


(***************************************************************************)
(* Steps jsPsych takes without input                                       *)
(***************************************************************************)
(* conditional_function of the pause screen at the head of a loop pass, and
   on_load of the pause screen *)
LoopHead ==
    /\ pc \in {"practiceLoop", "mainLoop"}
    /\ IF lastTrial
       THEN /\ pc' = IF pc = "practiceLoop" THEN "practicePause" ELSE "mainPause"
            /\ continueListeners' =
                  IF window = "participant" THEN continueListeners + 1 ELSE continueListeners
       ELSE /\ pc' = IF pc = "practiceLoop" THEN "practiceStart" ELSE "mainStart"
            /\ UNCHANGED continueListeners
    /\ UNCHANGED << participantData, responses, abilityEstimate, itemsAdministered,
                    currentItem, isPractice, practiceResponses, lastTrial, prevScoring,
                    pauseRequested, pendingResponse, pendingFinish, trialIndexZero, undoTrace >>
    /\ Fixed
    /\ pausedScore' = scoreTraceAfter(FALSE)
    /\ orrExportData' = exportDataAfter

(* createTestTrial.stimulus *)
practiceStimulus(practice, item) ==
    IF Len(practice) >= Len(getPracticeItems) THEN item
    ELSE getPracticeItems[Len(practice) + 1]

StartTestTrial ==
    /\ \/ /\ pc = "practiceStart"
          /\ pc' = "practiceTest"
          /\ currentItem' = practiceStimulus(practiceResponses, currentItem)
       \/ /\ pc = "mainStart"
          /\ pc' = "mainTest"
          /\ currentItem' \in selectNextItem(items, abilityEstimate, itemsAdministered)
    /\ UNCHANGED << participantData, responses, abilityEstimate, itemsAdministered,
                    isPractice, practiceResponses, lastTrial, prevScoring, pauseRequested,
                    pendingResponse, continueListeners, pendingFinish, trialIndexZero,
                    undoTrace >>
    /\ Fixed
    /\ pausedScore' = scoreTraceAfter(FALSE)
    /\ orrExportData' = exportDataAfter

(* the trial that resets isPractice: no choices, trial_duration 0 *)
ResetPracticeFlag ==
    /\ pc = "resetFlag"
    /\ pc' = "mainInstr"
    /\ isPractice' = FALSE
    /\ lastTrial' = FALSE
    /\ trialIndexZero' = FALSE
    /\ UNCHANGED << participantData, responses, abilityEstimate, itemsAdministered,
                    currentItem, practiceResponses, prevScoring, pauseRequested,
                    pendingResponse, continueListeners, pendingFinish, undoTrace >>
    /\ Fixed
    /\ pausedScore' = scoreTraceAfter(FALSE)
    /\ orrExportData' = exportDataAfter

(***************************************************************************)
(* Keyboard and button input                                               *)
(***************************************************************************)
Idle == pendingFinish = 0

ButtonContinue ==
    /\ Idle
    /\ pc \in ScreenPcs
    /\ pc \in PausePcs => window = "single"
    /\ \E form \in FormsAt(pc) :
          FinishTrial("0", FALSE, pauseRequested, pendingResponse, form)
    /\ UNCHANGED << continueListeners, pendingFinish >>
    /\ Fixed
    /\ pausedScore' = scoreTraceAfter(FALSE)
    /\ orrExportData' = exportDataAfter

KeyScore ==
    /\ Idle
    /\ pc \in TestPcs
    /\ \E key \in {"1", "0", "ArrowUp", "ArrowDown"} :
          FinishTrial(key, FALSE, pauseRequested, pendingResponse, NoForm)
    /\ UNCHANGED << continueListeners, pendingFinish >>
    /\ Fixed
    /\ pausedScore' = scoreTraceAfter(FALSE)
    /\ orrExportData' = exportDataAfter

(* handleKeyPress, registered by on_load when there is a current item *)
KeyPause ==
    /\ Idle
    /\ pc \in TestPcs
    /\ currentItem # NoItem
    /\ FinishTrial("PAUSE", FALSE, TRUE, pendingResponse, NoForm)
    /\ UNCHANGED << continueListeners, pendingFinish >>
    /\ Fixed
    /\ pausedScore' = scoreTraceAfter(FALSE)
    /\ orrExportData' = exportDataAfter

KeySpace ==
    /\ Idle
    /\ pc \in SpacePcs
    /\ FinishTrial(" ", FALSE, pauseRequested, pendingResponse, NoForm)
    /\ UNCHANGED << continueListeners, pendingFinish >>
    /\ Fixed
    /\ pausedScore' = scoreTraceAfter(FALSE)
    /\ orrExportData' = exportDataAfter

KeyArrowLeft ==
    /\ Idle
    /\ pc \in SpacePcs
    /\ FinishTrial("ArrowLeft", FALSE, pauseRequested, pendingResponse, NoForm)
    /\ UNCHANGED << continueListeners, pendingFinish >>
    /\ Fixed
    /\ pausedScore' = scoreTraceAfter(FALSE)
    /\ orrExportData' = exportDataAfter

(***************************************************************************)
(* Messages of the experimenter window (global listener of the participant *)
(* window)                                                                 *)
(***************************************************************************)
Untouched ==
    UNCHANGED << pc, participantData, responses, abilityEstimate, itemsAdministered,
                 currentItem, isPractice, practiceResponses, lastTrial, prevScoring,
                 trialIndexZero, undoTrace >>

MsgScore ==
    /\ Idle
    /\ window = "participant"
    /\ \E score \in {"1", "0"} :
          IF pc \in TestPcs \cup SpacePcs /\ ~trialIndexZero
          THEN FinishTrial(score, FALSE, pauseRequested, score, NoForm)
          ELSE /\ pendingResponse' = score
               /\ UNCHANGED pauseRequested
               /\ Untouched
    /\ UNCHANGED << continueListeners, pendingFinish >>
    /\ Fixed
    /\ pausedScore' = scoreTraceAfter(TRUE)
    /\ orrExportData' = exportDataAfter

MsgPause ==
    /\ Idle
    /\ window = "participant"
    /\ pc \in PausePcs => continueListeners < MaxListeners
    /\ IF pc \in DisplayedPcs
       THEN \E form \in FormsAt(pc) :
               FinishTrial("PAUSE", TRUE, TRUE, pendingResponse, form)
       ELSE /\ pauseRequested' = TRUE
            /\ UNCHANGED pendingResponse
            /\ Untouched
    /\ UNCHANGED << continueListeners, pendingFinish >>
    /\ Fixed
    /\ pausedScore' = scoreTraceAfter(FALSE)
    /\ orrExportData' = exportDataAfter

(* the global listener ends a spacebar trial; every registered pause-screen
   listener removes itself and calls jsPsych.finishTrial() *)
MsgContinue ==
    /\ Idle
    /\ window = "participant"
    /\ IF pc \in SpacePcs
       THEN FinishTrial(" ", FALSE, pauseRequested, pendingResponse, NoForm)
       ELSE /\ UNCHANGED << pauseRequested, pendingResponse >>
            /\ Untouched
    /\ pendingFinish' = continueListeners
    /\ continueListeners' = 0
    /\ Fixed
    /\ pausedScore' = scoreTraceAfter(FALSE)
    /\ orrExportData' = exportDataAfter

(* one jsPsych.finishTrial() of a pause-screen listener: it ends whatever
   trial is on display by then, with no data *)
ListenerFinish ==
    /\ pendingFinish > 0
    /\ pc \in DisplayedPcs \cup {"done"}
    /\ IF pc = "done"
       THEN /\ UNCHANGED << pauseRequested, pendingResponse >>
            /\ Untouched
       ELSE \E form \in FormsAt(pc) :
               FinishTrial("none", FALSE, pauseRequested, pendingResponse, form)
    /\ pendingFinish' = pendingFinish - 1
    /\ UNCHANGED continueListeners
    /\ Fixed
    /\ pausedScore' = scoreTraceAfter(FALSE)
    /\ orrExportData' = exportDataAfter

SessionNext ==
    \/ LoopHead
    \/ StartTestTrial
    \/ ResetPracticeFlag
    \/ ButtonContinue
    \/ KeyScore
    \/ KeyPause
    \/ KeySpace
    \/ KeyArrowLeft
    \/ MsgScore
    \/ MsgPause
    \/ MsgContinue
    \/ ListenerFinish

Next == SessionNext

Spec == Init /\ [][Next]_vars

(***************************************************************************)
(* The session in which every item presented is scored and confirmed: no   *)
(* pause key or message, no ArrowLeft, hence no pause screen and no        *)
(* continue message.  jsPsych takes its own steps without delay, and the   *)
(* examiner answers every trial on display.                                *)
(***************************************************************************)
ScoredStep ==
    \/ LoopHead
    \/ StartTestTrial
    \/ ResetPracticeFlag
    \/ ButtonContinue
    \/ KeyScore
    \/ KeySpace

ScoredNext == ScoredStep \/ MsgScore

SpecScored == Init /\ [][ScoredNext]_vars /\ WF_vars(ScoredStep)


(***************************************************************************)
(* Direct calls of the exported utilities (utils.selectNextItem,           *)
(* utils.shouldStopTest) on arguments drawn from bounded sets.  The        *)
(* session is left in its reset state.                                     *)
(***************************************************************************)
SessionUnchanged ==
    UNCHANGED << items, config, window, pc, participantData, responses, abilityEstimate,
                 itemsAdministered, currentItem, isPractice, practiceResponses, lastTrial,
                 prevScoring, pauseRequested, pendingResponse, continueListeners,
                 pendingFinish, trialIndexZero, undoTrace, pausedScore, orrExportData >>

SessionAtReset ==
    /\ resetState
    /\ items = << >>
    /\ config = Config(2, 3, 3, FALSE)
    /\ window = "single"
    /\ pc = "modeSelection"
    /\ lastTrial = FALSE
    /\ prevScoring = NoTrialData
    /\ pauseRequested = FALSE
    /\ pendingResponse = "none"
    /\ continueListeners = 0
    /\ pendingFinish = 0
    /\ trialIndexZero = TRUE
    /\ undoTrace = NoTrace
    /\ pausedScore = "none"
    /\ orrExportData = NoExport

(* difficultyMap of generateLetters, A to Z, in tenths *)
LetterDifficulties ==
    << 5, 6, 7, 8, 5, 9, 10, 12, 6, 13, 15, 9, 10, 10, 7, 11, 23, 12, 10, 9, 14, 18, 17,
       25, 20, 27 >>

generateLetters ==
    [i \in 1..Len(LetterDifficulties) |->
        Item("L" \o ToString(i), "letter", LetterDifficulties[i])]

generateLetterArrays ==
    << Item("LA1", "letter_array", 3), Item("LA2", "letter_array", 4),
       Item("LA3", "letter_array", 8), Item("LA4", "letter_array", 10),
       Item("LA5", "letter_array", 12), Item("LA6", "letter_array", 15) >>

(* word items loadWords can produce: ids W<n>, difficulties within [3.0, 10.0] *)
ProbeWords ==
    { Item("W1", "word", 30), Item("W2", "word", 41), Item("W3", "word", 50) }

RECURSIVE SeqsUpTo(_, _)
(* the sequences of at most n members of S *)
SeqsUpTo(S, n) ==
    IF n = 0 THEN { << >> }
    ELSE LET shorter == SeqsUpTo(S, n - 1)
         IN  shorter \cup
             { Append(q, x) : q \in {r \in shorter : Len(r) = n - 1},
                              x \in S } 

Distinct(q) == \A i, j \in 1..Len(q) : i # j => q[i] # q[j]

loadAllItems(words) == generateLetterArrays \o generateLetters \o words

(* CAT_CONFIG.items: empty until a bank is loaded, then the letter arrays, the
   letters and the (shuffled) words that were loaded *)
ProbeBanks ==
    { << >> } \cup
    { loadAllItems(words) : words \in { w \in SeqsUpTo(ProbeWords, MaxProbeWords) :
                                           Distinct(w) } }

(* ids whose administration the probes vary one by one *)
TrackedIds == {"LA1", "L1", "L25", "L26", "W1", "W2", "W3"}

(* the administered-id lists over a bank: each subset of its tracked ids, all
   its letter arrays and letters, and all its ids, in bank order *)
AdministeredLists(bank) ==
    LET ids(q) == [i \in 1..Len(q) |-> q[i].id]
        fixed == Len(generateLetterArrays) + Len(generateLetters)
    IN  { LET Picked(item) == item.id \in tracked
          IN  ids(SelectSeq(bank, Picked)) : tracked \in SUBSET TrackedIds }
        \cup { ids(SubSeq(bank, 1, IF Len(bank) = 0 THEN 0 ELSE fixed)), ids(bank) }

(* ability values in hundredths: table values, the thresholds 2.0 and 3.5 and
   their neighbours, and quotients updateAbilityEstimate produces *)
ProbeAbilities ==
    { Frac(h, 100) : h \in {0, 50, 155, 199, 200, 300, 349, 350, 410, 455, 700} }

SelectVariants == {"guarded", "unguarded"}

SelectInit ==
    /\ SessionAtReset
    /\ \E bank \in ProbeBanks :
       \E administered \in AdministeredLists(bank) :
       \E ability \in ProbeAbilities :
       \E variant \in SelectVariants :
          probe = [kind |-> "select", variant |-> variant, bank |-> bank,
                   ability |-> ability, administered |-> administered,
                   returned |-> FALSE, result |-> NoItem]

CallSelectNextItem ==
    /\ probe.kind = "select" /\ probe.variant = "guarded" /\ ~probe.returned
    /\ \E item \in selectNextItem(probe.bank, probe.ability, probe.administered) :
          probe' = [probe EXCEPT !.returned = TRUE, !.result = item]
    /\ SessionUnchanged

CallSelectNextItemUnguarded ==
    /\ probe.kind = "select" /\ probe.variant = "unguarded" /\ ~probe.returned
    /\ \E item \in selectNextItemUnguarded(probe.bank, probe.ability, probe.administered) :
          probe' = [probe EXCEPT !.returned = TRUE, !.result = item]
    /\ SessionUnchanged

SelectNext ==
    \/ CallSelectNextItem
    \/ CallSelectNextItemUnguarded

SpecSelect == SelectInit /\ [][SelectNext]_vars

(* response histories by correctness pattern; the item ids play no part in
   shouldStopTest *)
RECURSIVE Patterns(_)
Patterns(n) ==
    IF n = 0 THEN { << >> }
    ELSE LET shorter == Patterns(n - 1)
         IN  shorter \cup
             { Append(q, Response("W1", c)) : q \in {r \in shorter : Len(r) = n - 1},
                                              c \in BOOLEAN }

ProbeTargets == {0, 2, 3, 5, 11}

StopInit ==
    /\ SessionAtReset
    /\ \/ \E history \in Patterns(MaxProbeResponses) :
          \E minItems \in 0..MaxProbeItems :
          \E maxItems \in 0..MaxProbeItems :
          \E targetSE \in ProbeTargets :
             probe = [kind |-> "stop", responses |-> history,
                      config |-> Config(minItems, maxItems, targetSE, FALSE),
                      returned |-> FALSE, result |-> FALSE]
       \/ \E history \in Patterns(MaxLongHistory) :
             probe = [kind |-> "standardError", responses |-> history,
                      returned |-> FALSE, result |-> Frac(0, 1)]

CallShouldStopTest ==
    /\ probe.kind = "stop" /\ ~probe.returned
    /\ probe' = [probe EXCEPT !.returned = TRUE,
                              !.result = shouldStopTest(probe.responses, probe.config)]
    /\ SessionUnchanged

(* the result is the square of the standard error *)
CallCalculateStandardError ==
    /\ probe.kind = "standardError" /\ ~probe.returned
    /\ probe' = [probe EXCEPT !.returned = TRUE,
                              !.result = calculateStandardErrorSq(probe.responses)]
    /\ SessionUnchanged

StopNext ==
    \/ CallShouldStopTest
    \/ CallCalculateStandardError

SpecStop == StopInit /\ [][StopNext]_vars

(***************************************************************************)
(* getStartPoint on its own: every age up to MaxProbeAge with every         *)
(* education category of the table and two strings that are not in it;    *)
(* the result is in tenths                                                 *)
(***************************************************************************)
ProbeEducations == EducationLevels \cup {"", "doctorate"}

StartInit ==
    /\ SessionAtReset
    /\ \E age \in 0..MaxProbeAge :
       \E education \in ProbeEducations :
          probe = [kind |-> "startPoint", age |-> age, education |-> education,
                   returned |-> FALSE, result |-> 0]

CallGetStartPoint ==
    /\ probe.kind = "startPoint" /\ ~probe.returned
    /\ probe' = [probe EXCEPT !.returned = TRUE,
                              !.result = getStartPoint(probe.age, probe.education)]
    /\ SessionUnchanged

StartNext == CallGetStartPoint

SpecStart == StartInit /\ [][StartNext]_vars

(***************************************************************************)
(* updateAbilityEstimate on its own: CAT_CONFIG.items is the empty bank,    *)
(* the generated letters alone, or the letters with an easy word and a     *)
(* word at the difficulty clamp 10.0; the histories name items of the      *)
(* largest bank, so that on the smaller ones some ids are not found        *)
(***************************************************************************)
AbilityWords == << Item("W1", "word", 30), Item("W2", "word", 100) >>

AbilityBanks == { << >>, loadAllItems(<< >>), loadAllItems(AbilityWords) }

AbilityIds == {"L1", "L26", "W1", "W2"}

AbilityHistories ==
    SeqsUpTo({Response(id, c) : id \in AbilityIds, c \in BOOLEAN}, MaxProbeResponses)

AbilityInit ==
    /\ SessionAtReset
    /\ \E bank \in AbilityBanks :
       \E history \in AbilityHistories :
          probe = [kind |-> "ability", bank |-> bank, responses |-> history,
                   returned |-> FALSE, result |-> Frac(0, 1)]

CallUpdateAbilityEstimate ==
    /\ probe.kind = "ability" /\ ~probe.returned
    /\ probe' = [probe EXCEPT !.returned = TRUE,
                              !.result = updateAbilityEstimate(probe.bank, probe.responses)]
    /\ SessionUnchanged

AbilityNext == CallUpdateAbilityEstimate

SpecAbility == AbilityInit /\ [][AbilityNext]_vars

(***************************************************************************)
(* ORRWordBankLoader.loadAllItems against a network in which every fetch   *)
(* either rejects or resolves with a list of lines.  A line is kept with   *)
(* what the filters and calculateDifficulty read from it.  Word            *)
(* difficulties are exact fractions of whole difficulty units.             *)
(***************************************************************************)
Min(a, b) == IF a < b THEN a ELSE b

Line(content, length, vowel, space, ph, tion, ough) ==
    [content |-> content, length |-> length, vowel |-> vowel, space |-> space,
     ph |-> ph, tion |-> tion, ough |-> ough]

Rejected == [ok |-> FALSE, body |-> << >>]

Resolved(body) == [ok |-> TRUE, body |-> body]

(* lines of the basic word list *)
BasicVocabulary ==
    << Line("the", 3, TRUE, FALSE, FALSE, FALSE, FALSE),
       Line("though", 6, TRUE, FALSE, TRUE, FALSE, TRUE),
       Line("hmm", 3, FALSE, FALSE, FALSE, FALSE, FALSE),
       Line("", 0, FALSE, FALSE, FALSE, FALSE, FALSE),
       Line("information", 11, TRUE, FALSE, FALSE, TRUE, FALSE) >>

(* first fields of the lines of the GRE list after its header *)
GreVocabulary ==
    << Line("abase", 5, TRUE, FALSE, FALSE, FALSE, FALSE),
       Line("ad hoc", 6, TRUE, TRUE, FALSE, FALSE, FALSE),
       Line("ubiquitous", 10, TRUE, FALSE, FALSE, FALSE, FALSE),
       Line("ax", 2, TRUE, FALSE, FALSE, FALSE, FALSE),
       Line("zephyr", 6, TRUE, FALSE, TRUE, FALSE, FALSE) >>

(* words of the pronunciation dictionaries *)
IpaVocabulary == << "the", "though", "abase" >>

Bodies(vocabulary) ==
    { SubSeq(vocabulary, 1, Min(n, Len(vocabulary))) : n \in 0..MaxSourceWords }

Fetches(vocabulary) == {Rejected} \cup { Resolved(body) : body \in Bodies(vocabulary) }

RECURSIVE Perms(_)
Perms(S) ==
    IF S = {} THEN { << >> }
    ELSE UNION { { << x >> \o q : q \in Perms(S \ {x}) } : x \in S }

(* arr.sort(() => 0.5 - Math.random()): some rearrangement of arr *)
Shuffles(arr) == { [i \in 1..Len(arr) |-> arr[q[i]]] : q \in Perms(1..Len(arr)) }

randomSample(arr, n) == { SubSeq(q, 1, Min(n, Len(q))) : q \in Shuffles(arr) }

(* the map built by fetchIPADictionary, as the set of its keys *)
fetchIPADictionary(primary, backup) ==
    IF primary.ok THEN SeqToSet(primary.body)
    ELSE IF backup.ok THEN SeqToSet(backup.body)
    ELSE {}

getIPA(ipaDict, word) == IF word \in ipaDict THEN "/" \o word \o "/" ELSE "undefined"

WordItem(n, line, difficulty, ipaDict) ==
    [id |-> "W" \o ToString(n), type |-> "word", content |-> line.content,
     difficulty |-> difficulty, ipa |-> getIPA(ipaDict, line.content)]

isBasicWord(line) == line.length > 0 /\ line.vowel

isGreWord(line) == ~line.space /\ line.vowel /\ line.length > 2

calculateDifficultyUnclamped(rank, word) ==
    LET base == 30000 + 7 * rank
        byLength == IF word.length > 12 THEN 15000
                    ELSE IF word.length > 8 THEN 7000
                    ELSE IF word.length > 6 THEN 3000
                    ELSE IF word.length < 4 THEN -5000
                    ELSE 0
        difficulty == base + byLength + (IF word.ph THEN 3000 ELSE 0)
                           + (IF word.tion THEN 4000 ELSE 0)
                           + (IF word.ough THEN 5000 ELSE 0)
    IN  Frac(difficulty, 10000)

(* in ten-thousandths before the clamp *)
calculateDifficulty(rank, word) ==
    LET base == 30000 + 7 * rank
        byLength == IF word.length > 12 THEN 15000
                    ELSE IF word.length > 8 THEN 7000
                    ELSE IF word.length > 6 THEN 3000
                    ELSE IF word.length < 4 THEN -5000
                    ELSE 0
        difficulty == base + byLength + (IF word.ph THEN 3000 ELSE 0)
                           + (IF word.tion THEN 4000 ELSE 0)
                           + (IF word.ough THEN 5000 ELSE 0)
    IN  Frac(Min(100000, IF difficulty < 30000 THEN 30000 ELSE difficulty), 10000)

wordPool(words, from, to) ==
    LET ranked == [i \in 1..Len(words) |-> [word |-> words[i], index |-> i - 1]]
        InPool(e) == from <= e.index /\ e.index < to
    IN  SelectSeq(ranked, InPool)

processBasicWords(words, ipaDict) ==
    LET flat == { e \o me \o m \o mh \o h \o vh :
                    e \in randomSample(wordPool(words, 0, 100), 15),
                    me \in randomSample(wordPool(words, 100, 500), 20),
                    m \in randomSample(wordPool(words, 500, 2000), 25),
                    mh \in randomSample(wordPool(words, 2000, 5000), 20),
                    h \in randomSample(wordPool(words, 5000, 8000), 15),
                    vh \in randomSample(wordPool(words, 8000, Len(words) + 1), 10) }
        selected(flatSamples) ==
            [k \in 1..Len(flatSamples) |->
                WordItem(k, flatSamples[k].word,
                         calculateDifficulty(flatSamples[k].index, flatSamples[k].word),
                         ipaDict)]
    IN  UNION { Shuffles(selected(flatSamples)) : flatSamples \in flat }

Threw == [threw |-> TRUE, items |-> << >>]

Loaded(list) == [threw |-> FALSE, items |-> list]

(* the primary path of loadWords: both lists were fetched *)
primaryWords(gre, basic, ipaDict) ==
    LET greWords == SelectSeq(gre.body, isGreWord)
        filtered == SelectSeq(basic.body, isBasicWord)
        basicWords == SubSeq(filtered, 1, Min(2000, Len(filtered)))
        common == [k \in 1..Len(basicWords) |->
                      WordItem(k, basicWords[k], Frac(6000 + 3 * (k - 1), 2000), ipaDict)]
        advanced(sampled) ==
            [k \in 1..Len(sampled) |->
                WordItem(Len(basicWords) + k, sampled[k],
                         Frac(6 * Len(sampled) + 4 * (k - 1), Len(sampled)), ipaDict)]
    IN  UNION { Shuffles(common \o advanced(sampled)) :
                  sampled \in randomSample(greWords, 150) }

loadWordsRethrow(net) ==
    LET ipaDict == fetchIPADictionary(net.ipa, net.ipaBackup)
    IN  IF net.gre.ok /\ net.basic.ok
        THEN { Loaded(w) : w \in primaryWords(net.gre, net.basic, ipaDict) }
        ELSE IF net.retry.ok
        THEN { Loaded(w) :
                 w \in processBasicWords(SelectSeq(net.retry.body, isBasicWord), ipaDict) }
        ELSE { Threw }

loadWords(net) ==
    LET ipaDict == fetchIPADictionary(net.ipa, net.ipaBackup)
    IN  IF net.gre.ok /\ net.basic.ok
        THEN { Loaded(w) : w \in primaryWords(net.gre, net.basic, ipaDict) }
        ELSE IF net.retry.ok
        THEN { Loaded(w) :
                 w \in processBasicWords(SelectSeq(net.retry.body, isBasicWord), ipaDict) }
        ELSE { Loaded(<< >>) }

(* loadAllItems with the words it awaits: a throw of loadWords passes through *)
loadAllItemsFrom(net) ==
    { IF w.threw THEN Threw ELSE Loaded(loadAllItems(w.items)) : w \in loadWords(net) }

Networks ==
    [ipa : Fetches(IpaVocabulary), ipaBackup : {Rejected, Resolved(IpaVocabulary)},
     gre : Fetches(GreVocabulary), basic : Fetches(BasicVocabulary),
     retry : Fetches(BasicVocabulary)]

(* ranks and words for calculateDifficulty on its own: ranks of a 10000-word list
   and of a longer one, every length class with every combination of features *)
ProbeRanks == {0, 1, 714, 715, 5000, 9999, 10714, 10715, 12000}

ProbeLengths == {3, 4, 6, 7, 8, 9, 10, 12, 13}

ProbeShapes ==
    { Line("w", length, TRUE, FALSE, ph, tion, ough) :
        length \in ProbeLengths, ph \in BOOLEAN, tion \in BOOLEAN, ough \in BOOLEAN }

LoadInit ==
    /\ SessionAtReset
    /\ \/ \E net \in Networks :
             probe = [kind |-> "load", net |-> net, returned |-> FALSE,
                      result |-> Loaded(<< >>)]
       \/ \E rank \in ProbeRanks :
          \E word \in ProbeShapes :
             probe = [kind |-> "difficulty", rank |-> rank, word |-> word,
                      returned |-> FALSE, result |-> Frac(0, 1)]

CallLoadAllItems ==
    /\ probe.kind = "load" /\ ~probe.returned
    /\ \E outcome \in loadAllItemsFrom(probe.net) :
          probe' = [probe EXCEPT !.returned = TRUE, !.result = outcome]
    /\ SessionUnchanged

CallCalculateDifficulty ==
    /\ probe.kind = "difficulty" /\ ~probe.returned
    /\ probe' = [probe EXCEPT !.returned = TRUE,
                              !.result = calculateDifficulty(probe.rank, probe.word)]
    /\ SessionUnchanged

LoadNext ==
    \/ CallLoadAllItems
    \/ CallCalculateDifficulty

SpecLoad == LoadInit /\ [][LoadNext]_vars


(***************************************************************************)
(* Properties                                                              *)
(***************************************************************************)
Returned(kind) == probe.kind = kind /\ probe.returned

IsItem(x) == x # NoItem /\ x # TypeError

BankIds(bank) == {bank[i].id : i \in 1..Len(bank)}

MainData == << responses, itemsAdministered, abilityEstimate >>

(* C1: for every bank, ability and administered-id list, selectNextItem (either
   variant) never returns an item whose id is in administeredItems *)
C1_NeverReturnsAdministered ==
    (Returned("select") /\ IsItem(probe.result))
        => probe.result.id \notin SeqToSet(probe.administered)

(* C1 witness: an item is returned although an administered item of the bank lies
   strictly closer to the ability *)
C1_Witness ==
    /\ Returned("select") /\ IsItem(probe.result)
    /\ \E i \in 1..Len(probe.bank) :
          /\ probe.bank[i].id \in SeqToSet(probe.administered)
          /\ Distance(probe.bank[i], probe.ability) < Distance(probe.result, probe.ability)

(* C2: undo is a left inverse of recordResponse: once a response was recorded and
   then undone, the response sequence, the administered ids and the ability
   estimate are those found before the recording *)
C2_UndoRestoresPriorState ==
    undoTrace.stage = "undone" => MainData = undoTrace.before

(* C3: ArrowLeft at the confirmation step with an empty history changes nothing:
   not the responses, the administered ids and the ability estimate in the main
   test, and not the practice responses in practice mode *)
C3_EmptyUndoIsNoOp ==
    [][ KeyArrowLeft =>
          /\ (pc = "mainSpace" /\ Len(responses) = 0) => UNCHANGED MainData
          /\ (pc = "practiceSpace" /\ Len(practiceResponses) = 0)
                => UNCHANGED practiceResponses ]_vars

(* C4: in every reachable state the administered ids are, position by position,
   the item ids of the recorded responses, and no id appears twice *)
C4_AdministeredInLockStep ==
    /\ Len(itemsAdministered) = Len(responses)
    /\ \A i \in 1..Len(responses) : itemsAdministered[i] = responses[i].itemId
    /\ Distinct(itemsAdministered)

(* C4 witness: a response was recorded and undone again, one response is left,
   and the test is paused on an item not yet administered *)
C4_Witness ==
    /\ Len(responses) = 1
    /\ pc = "mainPause"
    /\ undoTrace.stage = "undone"
    /\ IsItem(currentItem)
    /\ currentItem.id \notin SeqToSet(itemsAdministered)

(* C5 as stated: shouldStopTest returns true whenever the number of responses is
   at least maxItems, for every configuration *)
C5_StopsAtMaxItems ==
    (Returned("stop") /\ Len(probe.responses) >= probe.config.maxItems)
        => probe.result = TRUE

(* C5 amended: shouldStopTest returns true whenever the number of responses is at
   least maxItems and at least minItems, whatever the correctness pattern and
   targetSE *)
C5_StopsAtMaxItemsOnceMinReached ==
    (/\ Returned("stop")
     /\ Len(probe.responses) >= probe.config.maxItems
     /\ Len(probe.responses) >= probe.config.minItems)
        => probe.result = TRUE

(* C5 witness: minItems = maxItems = 3, three responses of mixed correctness whose
   standard error is not below targetSE, and the call returned true *)
C5_Witness ==
    /\ Returned("stop")
    /\ probe.config.minItems = 3 /\ probe.config.maxItems = 3
    /\ Len(probe.responses) = 3
    /\ countCorrect(probe.responses) = 1
    /\ ~FracLess(calculateStandardErrorSq(probe.responses),
                 Frac(probe.config.targetSE * probe.config.targetSE, 100))
    /\ probe.result = TRUE

(* C6: shouldStopTest returns false whenever the number of responses is below
   minItems, whatever the correctness pattern and the standard error *)
C6_NeverStopsBelowMinItems ==
    (Returned("stop") /\ Len(probe.responses) < probe.config.minItems)
        => probe.result = FALSE

(* C6 witness: below minItems although maxItems is reached and the standard error
   is below targetSE, and the call returned false *)
C6_Witness ==
    /\ Returned("stop")
    /\ Len(probe.responses) < probe.config.minItems
    /\ Len(probe.responses) >= probe.config.maxItems
    /\ Len(probe.responses) >= 3
    /\ FracLess(calculateStandardErrorSq(probe.responses),
                Frac(probe.config.targetSE * probe.config.targetSE, 100))
    /\ probe.result = FALSE

(* C7, the trial a pause ends: a step that ends the scoring trial of the current
   item with a pause (the P key or a pause message, data response 'PAUSE') leaves
   responses, administered ids and ability unchanged, marks the trial paused and
   skips its confirmation step; a score message that arrives on the pause screen
   (it is stored as pendingResponse) changes none of them and does not leave the
   pause screen; and responses and administered ids change only at a
   confirmation step whose scoring trial was not paused *)
C7_PausedTrialNotRecorded ==
    [][ /\ (pc = "mainTest" /\ currentItem # NoItem /\ prevScoring'.response = "PAUSE")
            => /\ UNCHANGED MainData
               /\ prevScoring'.pause_requested
               /\ pc' # "mainSpace"
        /\ (pc \in PausePcs /\ pendingResponse' # pendingResponse)
            => (UNCHANGED MainData /\ pc' = pc)
        /\ (<<responses, itemsAdministered>>' # <<responses, itemsAdministered>>)
            => (pc = "mainSpace" /\ ~prevScoring.pause_requested
                                 /\ prevScoring.response # "PAUSE") ]_vars

(* C7: a paused trial is never scored or recorded; in particular a score that
   arrives while the session is Paused (a score message received while the pause
   screen is displayed) is discarded: it never becomes the score of a recorded
   response *)
C7_ScoreWhilePausedDiscarded ==
    pausedScore # "recorded"

(* C7, the trial a pause ends, witness: the test is paused after a pause ended
   the scoring trial of an item, with responses already recorded and a score
   message received since *)
C7_Witness ==
    /\ pc = "mainPause"
    /\ prevScoring.response = "PAUSE" /\ prevScoring.pause_requested
    /\ currentItem # NoItem
    /\ Len(responses) >= 1
    /\ pendingResponse # "none"

(* C8: resuming re-enters the interrupted trial: the item presented by the scoring
   trial that follows a pause of a scoring trial is the item that was current when
   the pause arrived *)
C8_ResumeKeepsCurrentItem ==
    [][ (/\ pc = "mainStart" /\ pc' = "mainTest"
         /\ prevScoring.pause_requested
         /\ currentItem # NoItem)
            => currentItem' = currentItem ]_vars

(* C9: selectNextItem returns null exactly when every bank item id is
   administered; otherwise it returns an unadministered item of the bank and
   raises no exception *)
C9_SelectionIsTotal ==
    Returned("select") =>
        /\ probe.result # TypeError
        /\ (probe.result = NoItem)
              <=> (BankIds(probe.bank) \subseteq SeqToSet(probe.administered))
        /\ probe.result # NoItem => probe.result \in SeqToSet(probe.bank)

(* C9 witness: the variant without the guard makes a first selection at an
   ability in [2.0, 3.5) from a bank with a word of difficulty 4.0 or more within
   tolerance, which the first-item filter removes, and returns an item *)
C9_Witness ==
    /\ Returned("select") /\ probe.variant = "unguarded" /\ IsItem(probe.result)
    /\ probe.administered = << >>
    /\ ~FracLess(probe.ability, FromTenths(20)) /\ FracLess(probe.ability, FromTenths(35))
    /\ \E i \in 1..Len(probe.bank) :
          /\ probe.bank[i].type = "word" /\ probe.bank[i].difficulty >= 40
          /\ Distance(probe.bank[i], probe.ability) <= Scaled(15, probe.ability)

(* C11: on the first selection (nothing administered) with ability below 2.0,
   selectNextItem returns a letter or a letter array, never a word, whenever the
   bank holds a letter or a letter array *)
C11_FirstItemBelowTwoIsLetter ==
    (/\ Returned("select")
     /\ probe.administered = << >>
     /\ FracLess(probe.ability, FromTenths(20))
     /\ \E i \in 1..Len(probe.bank) : probe.bank[i].type \in {"letter", "letter_array"})
        => probe.result.type \in {"letter", "letter_array"}

(* C11 witness: a first selection at an ability below 2.0 returns a letter while a
   word of the bank lies within the difficulty tolerance *)
C11_Witness ==
    /\ Returned("select") /\ probe.administered = << >>
    /\ FracLess(probe.ability, FromTenths(20))
    /\ probe.result.type = "letter"
    /\ \E i \in 1..Len(probe.bank) :
          /\ probe.bank[i].type = "word"
          /\ Distance(probe.bank[i], probe.ability) <= Scaled(15, probe.ability)

(* C10: no step taken in the practice phase changes the main response sequence,
   the administered ids or the main ability estimate (and with them the
   arguments of shouldStopTest) *)
C10_PracticeLeavesMainTest ==
    [][ (pc \in PracticePcs) => UNCHANGED MainData ]_vars

(* C10 witness: the practice loop is paused on its third item, with two practice
   responses recorded and nothing recorded for the main test *)
C10_Witness ==
    /\ pc = "practicePause"
    /\ Len(practiceResponses) = 2
    /\ prevScoring.pause_requested
    /\ responses = << >>

(* C12: for a history of at least minItems and fewer than maxItems responses
   shouldStopTest returns true exactly when the standard error of the history is
   strictly below targetSE (compared by their squares) *)
C12_BetweenMinAndMaxStopsOnStandardError ==
    (/\ Returned("stop")
     /\ Len(probe.responses) >= probe.config.minItems
     /\ Len(probe.responses) < probe.config.maxItems)
        => (probe.result = TRUE
              <=> FracLess(calculateStandardErrorSq(probe.responses),
                           Frac(probe.config.targetSE * probe.config.targetSE, 100)))

(* C12 witness: a history of 3 or more responses between minItems and maxItems
   whose standard error is 0 with targetSE 0, and the call returned false *)
C12_Witness ==
    /\ Returned("stop")
    /\ Len(probe.responses) >= probe.config.minItems
    /\ Len(probe.responses) < probe.config.maxItems
    /\ Len(probe.responses) >= 3
    /\ calculateStandardErrorSq(probe.responses) = Frac(0, 1)
    /\ probe.config.targetSE = 0
    /\ probe.result = FALSE

(* C13: calculateStandardError returns exactly 1 for every history of fewer than
   3 responses (the square of its result is 1) *)
C13_StandardErrorIsOneBelowThree ==
    (Returned("standardError") /\ Len(probe.responses) < 3)
        => probe.result = Frac(1, 1)

(* C13 witness: a history of 2 responses, one correct and one not, for which the
   call returned 1 *)
C13_Witness ==
    /\ Returned("standardError")
    /\ Len(probe.responses) = 2
    /\ countCorrect(probe.responses) = 1
    /\ probe.result = Frac(1, 1)

(* C14: a session whose bank is empty does not start: it never runs a trial of
   its test loop with zero items *)
C14_EmptyBankNeverRunsTestLoop ==
    Len(items) = 0 => pc \notin {"mainStart", "mainTest", "mainSpace", "mainPause"}

(* C16: when a start-point override is supplied the initial ability estimate is
   the override verbatim, on both paths that initialise the session: participant
   data handed to createTimeline (before any trial has finished) and the
   demographics form *)
C16_OverrideUsedVerbatim ==
    /\ []((trialIndexZero /\ participantData.startPointOverride # NoOverride)
            => abilityEstimate = initialAbility(participantData))
    /\ [][ (pc = "demographics" /\ participantData'.startPointOverride # NoOverride)
            => abilityEstimate' = initialAbility(participantData') ]_vars

(* C17: getStartPoint returns, for an age below 19, the age table's value when the
   age is one of 7..18 (0.5 at 7, 1.0 at 8, 7.0 at 18, never less than the value
   of the age before) and 3 otherwise; for an age of 19 or more it returns the
   education table's value (7.0 for college) and 5 for a category that is not in
   the table; values are in tenths *)
C17_StartPointTable ==
    Returned("startPoint") =>
        LET age == probe.age
            education == probe.education
            result == probe.result
        IN  /\ (age < 19 /\ age \in 7..18) =>
                  /\ result = AgeTable[age]
                  /\ age = 7 => result = 5
                  /\ age = 8 => result = 10
                  /\ age = 18 => result = 70
                  /\ age > 7 => result >= AgeTable[age - 1]
            /\ (age < 19 /\ age \notin 7..18) => result = 30
            /\ (age >= 19 /\ education \in EducationLevels) =>
                  /\ result = EducationTable[education]
                  /\ education = "college" => result = 70
            /\ (age >= 19 /\ education \notin EducationLevels) => result = 50

(* C17 witness: an age below 19 that the age table does not list gets 3.0 *)
C17_Witness ==
    /\ Returned("startPoint")
    /\ probe.age < 7
    /\ probe.result = 30

(* the claimed value of updateAbility, as the pair of a numerator and a
   denominator: 0.7 * (sum of the difficulties of the correct responses whose item
   is in the bank) / n + 0.3 * 10 * (number of correct responses) / n, with the
   difficulties in tenths *)
CorrectInBank(bank, history) ==
    {i \in 1..Len(history) : history[i].correct /\ history[i].itemId \in BankIds(bank)}

RECURSIVE DifficultySum(_, _, _)
DifficultySum(bank, history, positions) ==
    IF positions = {} THEN 0
    ELSE LET i == CHOOSE k \in positions : TRUE
             item == CHOOSE it \in SeqToSet(bank) : it.id = history[i].itemId
         IN  item.difficulty + DifficultySum(bank, history, positions \ {i})

NumberCorrect(history) == Cardinality({i \in 1..Len(history) : history[i].correct})

(* C18: updateAbilityEstimate returns 0 for an empty history, and for n > 0
   responses 0.7 * (sum of the difficulties of the correct responses whose item is
   in the bank / n) + 0.3 * 10 * (number of correct responses / n) *)
C18_AbilityFormula ==
    Returned("ability") =>
        LET n == Len(probe.responses)
            s == DifficultySum(probe.bank, probe.responses,
                               CorrectInBank(probe.bank, probe.responses))
            k == NumberCorrect(probe.responses)
        IN  IF n = 0 THEN probe.result.n = 0
            ELSE probe.result.n * (100 * n) = probe.result.d * (7 * s + 300 * k)

(* C18 witness: a history with a correct response found in the bank, a correct
   response whose item is not in the bank and an incorrect response *)
C18_Witness ==
    /\ Returned("ability")
    /\ \E i, j, k \in 1..Len(probe.responses) :
          /\ probe.responses[i].correct
          /\ probe.responses[i].itemId \in BankIds(probe.bank)
          /\ probe.responses[j].correct
          /\ probe.responses[j].itemId \notin BankIds(probe.bank)
          /\ ~probe.responses[k].correct
    /\ probe.result.n > 0

(* C19: for a non-empty history over a bank with difficulties in [0, 10] the value
   of updateAbilityEstimate is fixed by the bank and the responses and lies in
   [0, 10] *)
C19_AbilityInRange ==
    (Returned("ability") /\ Len(probe.responses) > 0) =>
        /\ probe.result = updateAbilityEstimate(probe.bank, probe.responses)
        /\ probe.result.d > 0
        /\ 0 <= probe.result.n
        /\ probe.result.n <= 10 * probe.result.d

(* C19 witness: every response correct on the item at difficulty 10.0, where the
   estimate is exactly 10 *)
C19_Witness ==
    /\ Returned("ability")
    /\ Len(probe.responses) > 1
    /\ \A i \in 1..Len(probe.responses) :
          probe.responses[i].correct /\ probe.responses[i].itemId = "W2"
    /\ probe.result = Frac(10, 1)

Exhausted(administered) == BankIds(items) \subseteq SeqToSet(administered)

(* C20: when a trial of the main test loop finishes and leaves no unadministered
   item in the bank, the loop ends and the results follow, whatever the stopping
   rule says; and no response, main or practice, is recorded while the current
   item is none *)
C20_LoopEndsWhenBankExhausted ==
    /\ [][ (/\ pc \in {"mainTest", "mainSpace"}
            /\ pc' \notin {pc, "mainSpace"}
            /\ Exhausted(itemsAdministered'))
              => pc' = "results" ]_vars
    /\ [][ (\/ Len(responses') > Len(responses)
            \/ Len(practiceResponses') > Len(practiceResponses))
              => currentItem # NoItem ]_vars

(* C20 witness: the results are on display after every item of a non-empty bank
   was administered, with the stopping rule still false *)
C20_Witness ==
    /\ pc = "results"
    /\ Len(items) > 0
    /\ Exhausted(itemsAdministered)
    /\ ~shouldStopTest(responses, config)

WordPortion(bank) == SubSeq(bank, 33, Len(bank))

WordContents(bank) == {WordPortion(bank)[i].content : i \in 1..Len(bank) - 32}

(* C15: whichever fetches reject, loadAllItems returns without throwing; the bank
   starts with the 6 letter arrays and the 26 letters; when the GRE list or the
   first fetch of the basic list rejects, the words are taken from the second
   fetch of the basic list alone, and when that rejects too there are no words *)
C15_LoadingDegradesNeverFails ==
    Returned("load") =>
        LET net == probe.net
            bank == probe.result.items
        IN  /\ ~probe.result.threw
            /\ Len(bank) >= 32
            /\ SubSeq(bank, 1, 6) = generateLetterArrays
            /\ SubSeq(bank, 7, 32) = generateLetters
            /\ Len(generateLetterArrays) = 6 /\ Len(generateLetters) = 26
            /\ \A i \in 33..Len(bank) : bank[i].type = "word"
            /\ (~(net.gre.ok /\ net.basic.ok) /\ net.retry.ok) =>
                  WordContents(bank) =
                     {l.content : l \in {x \in SeqToSet(net.retry.body) : isBasicWord(x)}}
            /\ (~(net.gre.ok /\ net.basic.ok) /\ ~net.retry.ok) => Len(bank) = 32

(* C15 witness: the GRE list is unreachable and the basic list is reached on the
   second attempt only; the bank has words, all from the basic list *)
C15_Witness ==
    /\ Returned("load")
    /\ ~probe.net.gre.ok /\ ~probe.net.basic.ok /\ probe.net.retry.ok
    /\ ~probe.net.ipa.ok /\ ~probe.net.ipaBackup.ok
    /\ Len(probe.result.items) > 33

(* C21: while a practice trial or its confirmation step is on display fewer than 3
   practice responses are recorded and the current item is the practice item at
   the index equal to their number; anywhere in the practice loop fewer than 3 are
   recorded, and the practice-complete screen shows with exactly 3, whatever
   minItems, maxItems and targetSE are *)
C21_PracticeEndsByExhaustion ==
    /\ pc \in {"practiceTest", "practiceSpace"} =>
          /\ Len(practiceResponses) < Len(getPracticeItems)
          /\ currentItem = getPracticeItems[Len(practiceResponses) + 1]
    /\ pc \in {"practiceLoop", "practiceStart", "practicePause"} =>
          Len(practiceResponses) < 3
    /\ pc = "practiceComplete" => Len(practiceResponses) = 3

(* C21 witness: practice is complete with 3 responses under a configuration whose
   stopping rule is true of those responses from the first one on *)
C21_Witness ==
    /\ pc = "practiceComplete"
    /\ Len(practiceResponses) = 3
    /\ shouldStopTest(SubSeq(practiceResponses, 1, 1), config)

NoFeature(word) == ~word.ph /\ ~word.tion /\ ~word.ough

(* C22: at every rank a word of length 9 to 12 that contains "ph" gets a strictly
   higher difficulty than a word shorter than 4 with none of the listed features
   gets at that rank, the clamp to [3.0, 10.0] included *)
C22_LongPhWordHarderThanShort ==
    (/\ Returned("difficulty")
     /\ probe.word.length \in 9..12
     /\ probe.word.ph)
        => \A short \in {w \in ProbeShapes : w.length < 4 /\ NoFeature(w)} :
              FracLess(calculateDifficulty(probe.rank, short), probe.result)

InWordRange(difficulty) ==
    3 * difficulty.d <= difficulty.n /\ difficulty.n <= 10 * difficulty.d

(* the rank-interpolated base 3.0 + 7.0 * rank / 10000 plus the adjustments for
   length, "ph"/"gh", "tion"/"sion" and "ough"/"augh", in ten-thousandths *)
AdjustedBase(rank, word) ==
    30000 + 7 * rank
      + (CASE word.length > 12 -> 15000
           [] word.length \in 9..12 -> 7000
           [] word.length \in 7..8 -> 3000
           [] word.length < 4 -> -5000
           [] OTHER -> 0)
      + (IF word.ph THEN 3000 ELSE 0)
      + (IF word.tion THEN 4000 ELSE 0)
      + (IF word.ough THEN 5000 ELSE 0)

(* C29: every word item of a loaded bank, from the primary lists or from the
   fallback list, has a difficulty in [3.0, 10.0]; calculateDifficulty, which the
   fallback path uses, returns the adjusted base when that lies in [3.0, 10.0],
   3.0 when it is below and 10.0 when it is above *)
C29_WordDifficultyClamped ==
    /\ Returned("load") =>
          \A i \in 33..Len(probe.result.items) :
              InWordRange(probe.result.items[i].difficulty)
    /\ Returned("difficulty") =>
          LET v == AdjustedBase(probe.rank, probe.word)
              clamped == IF v < 30000 THEN 30000 ELSE IF v > 100000 THEN 100000 ELSE v
          IN  /\ InWordRange(probe.result)
              /\ probe.result.n * 10000 = probe.result.d * clamped

(* C29 witness: a word whose adjusted base is above 10.0 comes out at 10.0 *)
C29_Witness ==
    /\ Returned("difficulty")
    /\ AdjustedBase(probe.rank, probe.word) > 100000
    /\ probe.rank < 10000
    /\ probe.result = Frac(10, 1)

EasyWordOrLetter(item) ==
    item.type = "letter" \/ (item.type = "word" /\ item.difficulty < 40)

(* C23: on the first selection (nothing administered) with 2.0 <= ability < 3.5,
   selectNextItem returns a letter or a word of difficulty below 4.0, never a
   letter array and never a word of difficulty 4.0 or more, whenever the bank
   holds a letter or such a word *)
C23_FirstItemMidAbilityIsLetterOrEasyWord ==
    (/\ Returned("select")
     /\ probe.administered = << >>
     /\ ~FracLess(probe.ability, FromTenths(20))
     /\ FracLess(probe.ability, FromTenths(35))
     /\ \E i \in 1..Len(probe.bank) : EasyWordOrLetter(probe.bank[i]))
        => IsItem(probe.result) /\ EasyWordOrLetter(probe.result)

(* C23 witness: a first selection at an ability in [2.0, 3.5) returns a letter
   although a word of difficulty 4.0 or more lies strictly closer to the ability *)
C23_Witness ==
    /\ Returned("select") /\ probe.administered = << >>
    /\ ~FracLess(probe.ability, FromTenths(20))
    /\ FracLess(probe.ability, FromTenths(35))
    /\ probe.result.type = "letter"
    /\ \E i \in 1..Len(probe.bank) :
          /\ probe.bank[i].type = "word" /\ probe.bank[i].difficulty >= 40
          /\ Distance(probe.bank[i], probe.ability) < Distance(probe.result, probe.ability)

Unadministered(bank, administered) ==
    {bank[i] : i \in {j \in 1..Len(bank) : bank[j].id \notin SeqToSet(administered)}}

(* distances are scaled by the denominator of the ability *)
NonFirstSelection ==
    /\ Returned("select")
    /\ probe.administered # << >>
    /\ Unadministered(probe.bank, probe.administered) # {}

(* C25: on every selection after the first with an unadministered item left, the
   distance of the returned item from the ability is at most d_min +
   tieTolerance, d_min being the least distance of any unadministered item and
   tieTolerance 0.2 with fewer than 3 ids administered and 0.1 otherwise *)
C25_ReturnedWithinTieTolerance ==
    NonFirstSelection =>
        /\ IsItem(probe.result)
        /\ \E closest \in Unadministered(probe.bank, probe.administered) :
              /\ \A other \in Unadministered(probe.bank, probe.administered) :
                    Distance(closest, probe.ability) <= Distance(other, probe.ability)
              /\ Distance(probe.result, probe.ability)
                    <= Distance(closest, probe.ability)
                         + Scaled(IF Len(probe.administered) < 3 THEN 2 ELSE 1,
                                  probe.ability)

(* C25 witness: with 3 or more ids administered the returned item is not a closest
   one, and an unadministered item lies beyond 0.1 but within 0.2 of the least
   distance *)
C25_Witness ==
    /\ NonFirstSelection /\ IsItem(probe.result)
    /\ Len(probe.administered) >= 3
    /\ \E closest, other \in Unadministered(probe.bank, probe.administered) :
          /\ Distance(closest, probe.ability) < Distance(probe.result, probe.ability)
          /\ Distance(other, probe.ability)
                > Distance(closest, probe.ability) + Scaled(1, probe.ability)
          /\ Distance(other, probe.ability)
                <= Distance(closest, probe.ability) + Scaled(2, probe.ability)
          /\ \A x \in Unadministered(probe.bank, probe.administered) :
                Distance(closest, probe.ability) <= Distance(x, probe.ability)

ToleranceAt(administered) == IF Len(administered) < 3 THEN 15 ELSE 5

(* C26: on every selection after the first, if some unadministered item lies
   within the tolerance of the ability (1.5 with fewer than 3 ids administered,
   0.5 otherwise), so does the returned item *)
C26_ReturnedWithinToleranceWhenPossible ==
    (/\ NonFirstSelection
     /\ \E near \in Unadministered(probe.bank, probe.administered) :
           Distance(near, probe.ability)
              <= Scaled(ToleranceAt(probe.administered), probe.ability))
        => /\ IsItem(probe.result)
           /\ Distance(probe.result, probe.ability)
                 <= Scaled(ToleranceAt(probe.administered), probe.ability)

(* C26 witness: the returned item is within the tolerance, and an unadministered
   item outside the tolerance is within the tie tolerance of the least distance *)
C26_Witness ==
    /\ NonFirstSelection /\ IsItem(probe.result)
    /\ Distance(probe.result, probe.ability)
          <= Scaled(ToleranceAt(probe.administered), probe.ability)
    /\ \E far \in Unadministered(probe.bank, probe.administered) :
          /\ Distance(far, probe.ability)
                > Scaled(ToleranceAt(probe.administered), probe.ability)
          /\ \A x \in Unadministered(probe.bank, probe.administered) :
                Distance(far, probe.ability)
                   <= Distance(x, probe.ability)
                        + Scaled(IF Len(probe.administered) < 3 THEN 2 ELSE 1,
                                 probe.ability)

(* C27: every step that changes the main response sequence either appends one
   response carrying the id of the current item and appends that id to the
   administered ids, or removes the last response and the last administered id;
   after it the ability estimate is updateAbilityEstimate of the new responses *)
C27_AbilityRecomputedOnRecordAndUndo ==
    [][ responses' # responses =>
          /\ abilityEstimate' = updateAbilityEstimate(items, responses')
          /\ \/ /\ \E correct \in BOOLEAN :
                      responses' = Append(responses, Response(currentItem.id, correct))
                /\ itemsAdministered' = Append(itemsAdministered, currentItem.id)
                /\ currentItem # NoItem
             \/ /\ Len(responses) > 0
                /\ responses' = Front(responses)
                /\ itemsAdministered' = Front(itemsAdministered) ]_vars

(* C27 witness: after two recordings and an undo one response is left, and the
   ability estimate differs from the starting ability *)
C27_Witness ==
    /\ undoTrace.stage = "undone"
    /\ Len(responses) = 1
    /\ abilityEstimate = updateAbilityEstimate(items, responses)
    /\ abilityEstimate # initialAbility(participantData)

(* C28: for 3 or more responses the square of calculateStandardError is
   (k/w)(1 - k/w)/w, where w = min(10, n) and k counts the correct ones among the
   last w responses; the correctness of a response older than the last 10 does
   not change the result *)
C28_StandardErrorOverLastTen ==
    (Returned("standardError") /\ Len(probe.responses) >= 3) =>
        LET n == Len(probe.responses)
            w == Min(10, n)
            k == NumberCorrect(SubSeq(probe.responses, n - w + 1, n))
        IN  /\ probe.result.n * (w * w * w) = probe.result.d * (k * (w - k))
            /\ \A i \in 1..(n - 10) :
                  probe.result =
                     calculateStandardErrorSq(
                        [probe.responses EXCEPT ![i].correct = ~probe.responses[i].correct])

(* C28 witness: 11 responses, the oldest correct and 5 of the last 10 correct; the
   square of the result is 1/40 *)
C28_Witness ==
    /\ Returned("standardError")
    /\ Len(probe.responses) = 11
    /\ probe.responses[1].correct
    /\ NumberCorrect(probe.responses) = 6
    /\ probe.result = Frac(1, 40)

(* C30: while the results are on display the summary agrees with the session
   state: totalItems is the number of responses, correctResponses the number of
   correct ones, finalAbility the current ability estimate, standardError the
   standard error of the responses, and the exported responses are the recorded
   ones in order *)
C30_SummaryMatchesSession ==
    pc = "results" =>
        /\ orrExportData.summary.totalItems = Len(responses)
        /\ orrExportData.summary.correctResponses = NumberCorrect(responses)
        /\ orrExportData.summary.finalAbility = abilityEstimate
        /\ orrExportData.summary.standardError = calculateStandardErrorSq(responses)
        /\ Len(orrExportData.responses) = Len(responses)
        /\ \A i \in 1..Len(responses) :
              /\ orrExportData.responses[i].itemId = responses[i].itemId
              /\ orrExportData.responses[i].correct = responses[i].correct

(* C31: in a session configured with 0 <= minItems <= maxItems the number of
   recorded main-test responses never exceeds maxItems *)
C31_ResponsesAtMostMaxItems ==
    (0 <= config.minItems /\ config.minItems <= config.maxItems)
        => Len(responses) <= config.maxItems

Complete == pc \in {"results", "done"}

(* C32: when every item presented is scored and confirmed, the session reaches the
   results, and never has more than max(minItems, maxItems) recorded responses *)
C32_ScoredSessionCompletes ==
    /\ <>Complete
    /\ [](Len(responses) <= IF config.minItems > config.maxItems
                             THEN config.minItems ELSE config.maxItems)

(* C33: with targetSE 0.3 the standard error of every history of 3 or more
   responses is strictly below the target, and shouldStopTest is true for every
   history of at least max(minItems, 3) responses *)
C33_DefaultTargetStopsFromThree ==
    /\ (Returned("standardError") /\ Len(probe.responses) >= 3)
            => FracLess(probe.result, Frac(3 * 3, 100))
    /\ (/\ Returned("stop")
        /\ probe.config.targetSE = 3
        /\ Len(probe.responses) >= 3
        /\ Len(probe.responses) >= probe.config.minItems)
            => probe.result = TRUE

(* a mixed history of 3 responses, below maxItems, stops the test at target 0.3 *)
C33_Witness ==
    /\ Returned("stop")
    /\ probe.config.targetSE = 3
    /\ Len(probe.responses) = 3
    /\ probe.config.minItems = 3
    /\ probe.config.maxItems > 3
    /\ probe.responses[1].correct /\ ~probe.responses[2].correct
    /\ probe.result = TRUE

(* C34: in the participant window a score given to a main-test trial that shows
   an item, and that ends the trial, never leaves that trial marked as paused,
   whatever happened before: the confirmation step follows *)
C34_PauseAffectsOnlyItsTrial ==
    [][(/\ window = "participant"
        /\ pc = "mainTest"
        /\ currentItem # NoItem
        /\ KeyScore \/ MsgScore
        /\ pc' # "mainTest")
           => (~prevScoring'.pause_requested /\ pc' = "mainSpace")]_vars

(* C35: a response is appended only by a confirmation (Space or a continue
   message), and a score message that arrives in the participant window during
   the confirmation step of the main test records nothing and leaves that step
   on display *)
C35_ScoreMessageOnlyScores ==
    [][ /\ (Len(responses') > Len(responses)) => (KeySpace \/ MsgContinue)
        /\ (/\ window = "participant"
            /\ pc = "mainSpace"
            /\ pendingResponse' # pendingResponse
            /\ pendingResponse' # "none")
               => (UNCHANGED MainData /\ pc' = pc) ]_vars

(* C36: ArrowLeft at the confirmation step of the main test with a non-empty
   history records nothing for the item on display and removes exactly the most
   recently recorded response; the id of the item on display is not among the
   administered ids afterwards *)
C36_UndoDiscardsCurrentScore ==
    [][ (KeyArrowLeft /\ pc = "mainSpace" /\ Len(responses) > 0)
            => /\ Len(responses') = Len(responses) - 1
               /\ responses' = Front(responses)
               /\ currentItem' = currentItem
               /\ currentItem.id \notin SeqToSet(itemsAdministered') ]_vars

(* C36 witness: a second response was recorded and then undone at the confirmation
   step of a third item, which is still to be administered *)
C36_Witness ==
    /\ undoTrace.stage = "undone"
    /\ Len(undoTrace.before[1]) = 1
    /\ Len(responses) = 1
    /\ IsItem(currentItem)
    /\ currentItem.id \notin SeqToSet(itemsAdministered)
    /\ currentItem.id # undoTrace.before[1][1].itemId

(* C37: once a response is recorded the ability estimate is a function of the bank
   and the recorded responses alone: two sessions on the same bank with the same
   recorded responses have the same estimate, whatever their age, education or
   start-point override *)
C37_StartingAbilityForgotten ==
    Len(responses) > 0 => abilityEstimate = updateAbilityEstimate(items, responses)

(* C37 witness: a session started from a start-point override has two recorded
   responses and an estimate that is not its starting ability *)
C37_Witness ==
    /\ participantData # NoForm
    /\ participantData.startPointOverride # NoOverride
    /\ Len(responses) = 2
    /\ abilityEstimate = updateAbilityEstimate(items, responses)
    /\ abilityEstimate # initialAbility(participantData)

(* a history of the ability probe in which every response is on an item of the
   bank and no item is answered twice, as a session records them *)
AnsweredFromBank ==
    /\ Returned("ability")
    /\ Len(probe.responses) >= 2
    /\ \A i \in 1..Len(probe.responses) : probe.responses[i].itemId \in BankIds(probe.bank)
    /\ \A i, j \in 1..Len(probe.responses) :
          i # j => probe.responses[i].itemId # probe.responses[j].itemId
    /\ \A i \in 1..Len(probe.bank) :
          probe.bank[i].difficulty >= 0 /\ probe.bank[i].difficulty <= 100

(* C38: the ability estimate of a history that ends with a correct response is not
   below the estimate of the history without that response, when the latter is
   non-empty *)
C38_CorrectNeverDecreases ==
    (AnsweredFromBank /\ probe.responses[Len(probe.responses)].correct)
        => ~FracLess(probe.result,
                     updateAbilityEstimate(probe.bank, Front(probe.responses)))

(* C39: the ability estimate of a history that ends with an incorrect response is
   not above the estimate of the history without that response, when the latter is
   non-empty; a history of incorrect responses only has estimate exactly 0 *)
C39_IncorrectNeverIncreases ==
    /\ (/\ Returned("ability")
        /\ Len(probe.responses) >= 2
        /\ ~probe.responses[Len(probe.responses)].correct)
           => ~FracLess(updateAbilityEstimate(probe.bank, Front(probe.responses)),
                        probe.result)
    /\ (/\ Returned("ability")
        /\ Len(probe.responses) >= 1
        /\ \A i \in 1..Len(probe.responses) : ~probe.responses[i].correct)
           => probe.result = Frac(0, 1)

(* C39 witness: an incorrect response on the hardest word follows a correct one on
   an easy letter and lowers the estimate strictly *)
C39_Witness ==
    /\ Returned("ability")
    /\ probe.responses = << Response("L1", TRUE), Response("W2", FALSE) >>
    /\ findItem(probe.bank, "W2").difficulty = 100
    /\ FracLess(probe.result, updateAbilityEstimate(probe.bank, Front(probe.responses)))
    /\ FracLess(Frac(0, 1), probe.result)

====
